---- MODULE Spec2Model ----
(***************************************************************************)
(* Model of the RAG portfolio repository.  The sub-projects are            *)
(* independent programs, so each has its own specification over its own    *)
(* variables; the variables of the other sub-projects stay at their        *)
(* initial values.                                                         *)
(*                                                                         *)
(*   SpecGraph  graph_rag: the shared networkx DiGraph `kg`,               *)
(*              KnowledgeGraph.add_triples and retrieve_graph_context      *)
(*   SpecCtl    agentic_rag: agent_controller                              *)
(*   SpecPipe   rag_from_scratch: RAGPipeline.run / get_salary_insight     *)
(*              with Generator and LocalAdvisor                            *)
(*   SpecStore  rag_from_scratch: VectorStore add / save / load and        *)
(*              Retriever.search over it                                   *)
(*   SpecClean  rag_from_scratch: ingestion.clean_data                     *)
(*                                                                         *)
(* Python strings are TLA+ strings (TLC evaluates Len, \o and SubSeq on    *)
(* them), so formatting, prefix and substring tests are computed.          *)
(***************************************************************************)
EXTENDS Integers, Sequences, FiniteSets, TLC

VARIABLES
    kg,         \* graph_rag: the module-level nx.DiGraph
    addOnEmpty, \* graph_rag: the most recent call, when it was add_triples on the empty graph
    ret,        \* graph_rag: the most recent call, when it was retrieve_graph_context
    query,      \* agentic_rag: the query handed to agent_controller
    route,      \* agentic_rag: what agent_controller returned for it ("" before the call)
    pipeline,   \* rag_from_scratch: the RAGPipeline object (its generator)
    out,        \* rag_from_scratch: the most recent call on the pipeline and its outcome
    store,      \* rag_from_scratch: the VectorStore object in hand (dimension, FAISS index)
    files,      \* rag_from_scratch: the index files on disk, by path
    ghost,      \* rag_from_scratch: what was passed to the store since it was constructed
    call,       \* rag_from_scratch: the most recent call on the store or its Retriever
    frame,      \* rag_from_scratch: the DataFrame handed to clean_data, and the passes made
    folders,    \* multi_doc_rag: the document folders on disk and the files in them
    loaded,     \* multi_doc_rag: the most recent load_documents call and what it returned
    mainp,      \* rag_from_scratch: the main() process: where it is, what it reported, what it returned
    agent,      \* agentic_rag: the module-level _llm, the loads made, and the most recent rag_answer call
    asked,      \* graph_rag: the latest GraphRAGPipeline.ask call
    boot,       \* rag_from_scratch: the data files on disk and what initialize_system returned
    cvapp       \* cv_analyzer: the temporary files on disk and the latest run of the Streamlit handler

storeVars == <<store, files, ghost, call>>

loadVars == <<folders, loaded>>

vars == <<kg, addOnEmpty, ret, query, route, pipeline, out, storeVars, frame, loadVars,
         mainp, agent, asked, boot, cvapp>>

(***************************************************************************)
(* Bounds of the model.                                                    *)
(***************************************************************************)
MaxBatch == 2      \* items in one add_triples call
MaxDepth == 3      \* largest max_depth passed to retrieve_graph_context
MaxQueryLen == 4   \* characters in a query handed to agent_controller
MaxK == 2          \* largest k passed to RAGPipeline.run / get_salary_insight

(***************************************************************************)
(* Python strings.                                                         *)
(***************************************************************************)
StartsWith(s, p) == Len(s) >= Len(p) /\ SubSeq(s, 1, Len(p)) = p

\* Python's `w in s` for strings
Contains(s, w) ==
    \E i \in 1..(Len(s) - Len(w) + 1) : SubSeq(s, i, i + Len(w) - 1) = w

(***************************************************************************)
(* graph_rag: the knowledge graph.                                         *)
(*                                                                         *)
(* A networkx DiGraph keeps, per node, the dict of its successors and the  *)
(* dict of its predecessors, both in insertion order, and one attribute    *)
(* dict per ordered (u, v) pair.                                           *)
(***************************************************************************)
Names == {"A", "B", "C", "D"}

\* A value of item.get(key): <<>> is None (key missing), <<s>> the string s.
PyNone == <<>>
Str(s) == <<s>>
Truthy(v) == v # PyNone /\ v[1] # ""

\* succ and pred are functions on the nodes, label a function on the edges.
EmptyGraph ==
    [nodes |-> {},
     succ  |-> [n \in {} |-> <<>>],
     pred  |-> [n \in {} |-> <<>>],
     label |-> [p \in {} |-> ""]]

Edges(g) == DOMAIN g.label

InSeq(x, s) == \E i \in 1..Len(s) : s[i] = x

\* nx.DiGraph.add_node
add_node(g, n) ==
    IF n \in g.nodes THEN g
    ELSE [g EXCEPT !.nodes = @ \cup {n},
                   !.succ = [m \in g.nodes \cup {n} |-> IF m = n THEN <<>> ELSE g.succ[m]],
                   !.pred = [m \in g.nodes \cup {n} |-> IF m = n THEN <<>> ELSE g.pred[m]]]

\* Mutant: an existing pair keeps the label it has.
add_edge_keeping_label(g, u, v, rel) ==
    LET g1 == add_node(add_node(g, u), v)
    IN [g1 EXCEPT !.succ[u] = IF InSeq(v, @) THEN @ ELSE Append(@, v),
                  !.pred[v] = IF InSeq(u, @) THEN @ ELSE Append(@, u),
                  !.label = [p \in Edges(g) \cup {<<u, v>>} |->
                                IF p \in Edges(g) THEN g.label[p] ELSE rel]]

\* nx.DiGraph.add_edge(u, v, label=rel): a new pair is appended to u's
\* successors and to v's predecessors; an existing pair keeps its place and
\* has its attribute dict updated.
add_edge(g, u, v, rel) ==
    LET g1 == add_node(add_node(g, u), v)
    IN [g1 EXCEPT !.succ[u] = IF InSeq(v, @) THEN @ ELSE Append(@, v),
                  !.pred[v] = IF InSeq(u, @) THEN @ ELSE Append(@, u),
                  !.label = [p \in Edges(g) \cup {<<u, v>>} |->
                                IF p = <<u, v>> THEN rel ELSE g.label[p]]]

\* A JSON list of two strings as the value of a key: truthy, and not
\* hashable, so it cannot be a node (add_node raises TypeError).
PyList(a, b) == <<a, b>>
Hashable(v) == Len(v) <= 1

\* One iteration of the loop of add_triples: item.get on something that is
\* not a dict raises AttributeError, which the except clause logs; so it
\* does the TypeError of kg.add_node(head), before anything was added, and
\* the TypeError of kg.add_node(tail), after the head was added.
add_triple(g, item) ==
    IF ~item.isdict THEN g
    ELSE LET head == item.head
             tail == item.tail
             relation == item.relation
         IN IF Truthy(head) /\ Truthy(tail) /\ Truthy(relation)
            THEN IF ~Hashable(head) THEN g
                 ELSE IF ~Hashable(tail) THEN add_node(g, head[1])
                 ELSE add_edge(add_node(add_node(g, head[1]), tail[1]),
                               head[1], tail[1], relation[1])
            ELSE g

RECURSIVE add_triples_from(_, _, _)
add_triples_from(g, triples, i) ==
    IF i > Len(triples) THEN g
    ELSE add_triples_from(add_triple(g, triples[i]), triples, i + 1)

\* Mutant: the try/except wraps the whole loop, so the first item that is
\* not a dict ends the call.
RECURSIVE add_triples_try_outside_from(_, _, _)
add_triples_try_outside_from(g, triples, i) ==
    IF i > Len(triples) \/ ~triples[i].isdict THEN g
    ELSE add_triples_try_outside_from(add_triple(g, triples[i]), triples, i + 1)

add_triples_try_outside(g, triples) == add_triples_try_outside_from(g, triples, 1)

\* KnowledgeGraph.add_triples
add_triples(g, triples) == add_triples_from(g, triples, 1)

\* KnowledgeGraph.get_stats
get_stats(g) == [nodes |-> Cardinality(g.nodes), edges |-> Cardinality(Edges(g))]

(***************************************************************************)
(* graph_rag: retrieve_graph_context.                                      *)
(*                                                                         *)
(* The traversal state is the pair of closure variables `context` and      *)
(* `visited_nodes`; `deepest` and `calls` record the largest depth         *)
(* argument and the number of invocations of dfs.                          *)
(***************************************************************************)
\* f"{head} {relation} {tail}"
Triple(head, relation, tail) == head \o " " \o relation \o " " \o tail

NoTraversal == [context |-> {}, visited |-> {}, deepest |-> 0, calls |-> 0]

Max(a, b) == IF a >= b THEN a ELSE b

RECURSIVE dfs(_, _, _, _)
RECURSIVE dfs_successors(_, _, _, _, _)
RECURSIVE dfs_predecessors(_, _, _, _, _)

\* for neighbor in kg.successors(node), from the i-th on
dfs_successors(max_depth, node, depth, i, st) ==
    IF i > Len(kg.succ[node]) THEN st
    ELSE LET neighbor == kg.succ[node][i]
             relation == kg.label[<<node, neighbor>>]
             st1 == [st EXCEPT !.context = @ \cup {Triple(node, relation, neighbor)}]
             st2 == IF neighbor \notin st1.visited
                    THEN dfs(max_depth, neighbor, depth + 1, st1)
                    ELSE st1
         IN dfs_successors(max_depth, node, depth, i + 1, st2)

\* for predecessor in kg.predecessors(node), from the i-th on
dfs_predecessors(max_depth, node, depth, i, st) ==
    IF i > Len(kg.pred[node]) THEN st
    ELSE LET predecessor == kg.pred[node][i]
             relation == kg.label[<<predecessor, node>>]
             st1 == [st EXCEPT !.context = @ \cup {Triple(predecessor, relation, node)}]
             st2 == IF predecessor \notin st1.visited
                    THEN dfs(max_depth, predecessor, depth + 1, st1)
                    ELSE st1
         IN dfs_predecessors(max_depth, node, depth, i + 1, st2)

\* Mutant: the depth test is off by one.
dfs_one_deeper(max_depth, node, depth, st) ==
    LET entered == [st EXCEPT !.calls = @ + 1, !.deepest = Max(@, depth)]
    IN IF depth > max_depth + 1 THEN entered
       ELSE LET st1 == [entered EXCEPT !.visited = @ \cup {node}]
                st2 == dfs_successors(max_depth, node, depth, 1, st1)
            IN dfs_predecessors(max_depth, node, depth, 1, st2)

\* A traversal that marks the node before it tests the depth.
dfs_marking_first(max_depth, node, depth, st) ==
    LET entered == [st EXCEPT !.calls = @ + 1, !.deepest = Max(@, depth),
                              !.visited = @ \cup {node}]
    IN IF depth > max_depth THEN entered
       ELSE dfs_predecessors(max_depth, node, depth, 1,
                             dfs_successors(max_depth, node, depth, 1, entered))

\* A traversal that follows outgoing edges only.
dfs_outgoing_only(max_depth, node, depth, st) ==
    LET entered == [st EXCEPT !.calls = @ + 1, !.deepest = Max(@, depth)]
    IN IF depth > max_depth THEN entered
       ELSE dfs_successors(max_depth, node, depth, 1,
                           [entered EXCEPT !.visited = @ \cup {node}])

dfs(max_depth, node, depth, st) ==
    LET entered == [st EXCEPT !.calls = @ + 1, !.deepest = Max(@, depth)]
    IN IF depth > max_depth THEN entered
       ELSE LET st1 == [entered EXCEPT !.visited = @ \cup {node}]
                st2 == dfs_successors(max_depth, node, depth, 1, st1)
            IN dfs_predecessors(max_depth, node, depth, 1, st2)

\* ". ".join(context): a set is iterated in an order the program does not
\* choose; the model joins in the order CHOOSE gives.
RECURSIVE Join(_)
Join(S) ==
    IF S = {} THEN ""
    ELSE LET x == CHOOSE y \in S : TRUE
         IN IF S = {x} THEN x ELSE x \o ". " \o Join(S \ {x})

\* Mutant: no `if entity in kg.nodes` guard; kg.successors of a name that is
\* not a node raises NetworkXError.
retrieve_unguarded(entity, max_depth) ==
    LET st == IF entity \in kg.nodes
              THEN dfs(max_depth, entity, 1, NoTraversal)
              ELSE NoTraversal
    IN [called |-> TRUE, entity |-> entity, max_depth |-> max_depth,
        raised |-> IF entity \in kg.nodes THEN "" ELSE "NetworkXError",
        text |-> Join(st.context), context |-> st.context,
        visited |-> st.visited, deepest |-> st.deepest, calls |-> st.calls]

retrieve_graph_context(entity, max_depth) ==
    LET st == IF entity \in kg.nodes
              THEN dfs(max_depth, entity, 1, NoTraversal)
              ELSE NoTraversal
    IN [called |-> TRUE, entity |-> entity, max_depth |-> max_depth,
        raised |-> "", text |-> Join(st.context), context |-> st.context,
        visited |-> st.visited, deepest |-> st.deepest, calls |-> st.calls]

(***************************************************************************)
(* graph_rag: the operations.                                              *)
(***************************************************************************)
Dict(h, r, t) == [isdict |-> TRUE, head |-> h, relation |-> r, tail |-> t]

\* The triples a call may carry: a chain A -> B -> C -> D with the chord
\* A -> C, the back edge C -> A (a cycle, and both directions between A and
\* C), a self-loop on D and a second relation for the pair (A, B).
ValidItems ==
    {Dict(Str("A"), Str("r"), Str("B")),
     Dict(Str("B"), Str("r"), Str("C")),
     Dict(Str("A"), Str("r"), Str("C")),
     Dict(Str("C"), Str("r"), Str("D")),
     Dict(Str("D"), Str("r"), Str("D")),
     Dict(Str("C"), Str("r"), Str("A")),
     Dict(Str("A"), Str("s"), Str("B"))}

\* A dict without "head", one whose "tail" is the empty string, one without
\* "relation", and an item that is not a dict.
InvalidItems ==
    {Dict(PyNone, Str("r"), Str("B")),
     Dict(Str("A"), Str("r"), Str("")),
     Dict(Str("C"), PyNone, Str("D")),
     [isdict |-> FALSE, head |-> PyNone, relation |-> PyNone, tail |-> PyNone]}

Items == ValidItems \cup InvalidItems

RECURSIVE ListsUpTo(_, _)
ListsUpTo(S, n) ==
    IF n = 0 THEN {<<>>}
    ELSE LET shorter == ListsUpTo(S, n - 1)
         IN shorter \cup {Append(l, x) : l \in {m \in shorter : Len(m) = n - 1}, x \in S}

Batches == ListsUpTo(Items, MaxBatch)

NoAdd == [called |-> FALSE, triples |-> <<>>]
NoRetrieve ==
    [called |-> FALSE, entity |-> "", max_depth |-> 0, raised |-> "", text |-> "",
     context |-> {}, visited |-> {}, deepest |-> 0, calls |-> 0]

GraphIdle == kg = EmptyGraph /\ addOnEmpty = NoAdd /\ ret = NoRetrieve
CtlIdle == query = "" /\ route = ""

NoPipeline == [kind |-> "", api_key |-> "", side_effect |-> "", return_value |-> ""]
NoCall == [op |-> ""]
PipeIdle == pipeline = NoPipeline /\ out = NoCall

NoStore == [dimension |-> 0, d |-> 0, index |-> <<>>]
NoGhost == [added |-> 0, loaded |-> FALSE, saved |-> <<>>]
StoreIdle == store = NoStore /\ files = <<>> /\ ghost = NoGhost /\ call = NoCall

NoFrame == [columns |-> {}, rows |-> <<>>, passes |-> 0]
CleanIdle == frame = NoFrame

LoadIdle == folders = <<>> /\ loaded = NoCall

NoMain == [pc |-> "", rounds |-> 0, reported |-> 0, answered |-> 0, event |-> "",
           exit_code |-> 0 - 1, raised |-> "", cause |-> ""]
MainIdle == mainp = NoMain

NoAgent == [llm |-> PyNone, loads |-> 0, calls |-> 0, answer |-> NoCall]
AgentIdle == agent = NoAgent

AskIdle == asked = NoCall

\* A file is <<>> when absent and <<content>> when present.
NoBoot == [raw |-> <<>>, processed |-> <<>>, returned |-> FALSE, raised |-> "", df |-> <<>>]
BootIdle == boot = NoBoot

NoCv == [runs |-> 0, tmp_files |-> 0, last |-> NoCall]
CvIdle == cvapp = NoCv

InitGraph == GraphIdle /\ CtlIdle /\ PipeIdle /\ StoreIdle /\ CleanIdle /\ LoadIdle /\ MainIdle /\ AgentIdle /\ AskIdle /\ BootIdle /\ CvIdle

\* KnowledgeGraph().add_triples(triples)
AddTriples ==
    \E triples \in Batches :
        /\ kg' = add_triples(kg, triples)
        /\ addOnEmpty' = IF kg.nodes = {}
                         THEN [called |-> TRUE, triples |-> triples]
                         ELSE NoAdd
        /\ ret' = NoRetrieve
        /\ UNCHANGED <<query, route, pipeline, out, storeVars, frame, loadVars, mainp, agent, asked, boot, cvapp>>

\* retrieve_graph_context(entity, max_depth): reads the graph only
Retrieve ==
    \E entity \in Names, max_depth \in 1..MaxDepth :
        /\ ret' = retrieve_graph_context(entity, max_depth)
        /\ addOnEmpty' = NoAdd
        /\ UNCHANGED <<kg, query, route, pipeline, out, storeVars, frame, loadVars, mainp, agent, asked, boot, cvapp>>

NextGraph == AddTriples \/ Retrieve

SpecGraph == InitGraph /\ [][NextGraph]_vars

(***************************************************************************)
(* agentic_rag: agent_controller.                                          *)
(***************************************************************************)
SEARCH_KEYWORDS ==
    <<"pdf", "document", "data", "summarize", "information", "find", "context", "file">>

UpperLetters == "ABCDEFGHIJKLMNOPQRSTUVWXYZ"
LowerLetters == "abcdefghijklmnopqrstuvwxyz"

CharAt(s, i) == SubSeq(s, i, i)

\* str.lower() of one character
LowerChar(c) ==
    IF \E i \in 1..Len(UpperLetters) : CharAt(UpperLetters, i) = c
    THEN CharAt(LowerLetters, CHOOSE i \in 1..Len(UpperLetters) : CharAt(UpperLetters, i) = c)
    ELSE c

\* str.upper() of one character
UpperChar(c) ==
    IF \E i \in 1..Len(LowerLetters) : CharAt(LowerLetters, i) = c
    THEN CharAt(UpperLetters, CHOOSE i \in 1..Len(LowerLetters) : CharAt(LowerLetters, i) = c)
    ELSE c

RECURSIVE Lower(_)
Lower(s) == IF s = "" THEN "" ELSE LowerChar(CharAt(s, 1)) \o Lower(SubSeq(s, 2, Len(s)))

RECURSIVE Upper(_)
Upper(s) == IF s = "" THEN "" ELSE UpperChar(CharAt(s, 1)) \o Upper(SubSeq(s, 2, Len(s)))

\* Mutant: the keywords are looked up in the query as typed.
agent_controller_no_lower(q) ==
    IF \E i \in 1..Len(SEARCH_KEYWORDS) : Contains(q, SEARCH_KEYWORDS[i])
    THEN "search"
    ELSE "direct"

agent_controller(q) ==
    LET q_lower == Lower(q)
    IN IF \E i \in 1..Len(SEARCH_KEYWORDS) : Contains(q_lower, SEARCH_KEYWORDS[i])
       THEN "search"
       ELSE "direct"

\* The characters of the queries: the letters of "data" in both cases, the
\* other letters of "pdf", and a blank.
QueryChars == {"d", "a", "t", "D", "A", "T", "p", "f", " "}

RECURSIVE StringsUpTo(_)
StringsUpTo(n) ==
    IF n = 0 THEN {""}
    ELSE LET shorter == StringsUpTo(n - 1)
         IN shorter \cup {s \o c : s \in {t \in shorter : Len(t) = n - 1}, c \in QueryChars}

Queries == StringsUpTo(MaxQueryLen)

InitCtl == GraphIdle /\ PipeIdle /\ StoreIdle /\ CleanIdle /\ LoadIdle /\ MainIdle /\ AgentIdle /\ AskIdle /\ BootIdle /\ CvIdle /\ query \in Queries /\ route = ""

\* agent_controller(query)
Route ==
    /\ route' = agent_controller(query)
    /\ UNCHANGED <<kg, addOnEmpty, ret, query, pipeline, out, storeVars, frame, loadVars, mainp, agent, asked, boot, cvapp>>

NextCtl == Route

SpecCtl == InitCtl /\ [][NextCtl]_vars

\* C5: agent_controller returns "search" exactly when a keyword occurs in
\* the query with its letters in any case, and "direct" otherwise; the
\* all-capitals and all-small spellings of the query get the same answer.
KeywordAt(q, w, i) ==
    /\ i + Len(w) - 1 <= Len(q)
    /\ \A j \in 1..Len(w) : LowerChar(CharAt(q, i + j - 1)) = CharAt(w, j)

MentionsKeyword(q) ==
    \E k \in 1..Len(SEARCH_KEYWORDS), i \in 1..Len(q) : KeywordAt(q, SEARCH_KEYWORDS[k], i)

C5_RouteByKeyword ==
    route # "" =>
        /\ route \in {"search", "direct"}
        /\ route = "search" <=> MentionsKeyword(query)
        /\ agent_controller(Upper(query)) = route
        /\ agent_controller(Lower(query)) = route

\* A query that spells a keyword in mixed case was routed to "search".
C5_Witness ==
    /\ route = "search"
    /\ query # Lower(query)
    /\ query # Upper(query)

(***************************************************************************)
(* rag_from_scratch: Generator, LocalAdvisor and RAGPipeline.              *)
(*                                                                         *)
(* A call of generate_answer yields [value, raised, api_called]: the       *)
(* string returned, or the name of the exception that left the call.  The  *)
(* bullet character of the source is written "*".                          *)
(***************************************************************************)
IsSpace(c) == c \in {" ", "\n", "\t"}

\* str.strip()
RECURSIVE Strip(_)
Strip(s) ==
    IF s = "" THEN ""
    ELSE IF IsSpace(CharAt(s, 1)) THEN Strip(SubSeq(s, 2, Len(s)))
    ELSE IF IsSpace(CharAt(s, Len(s))) THEN Strip(SubSeq(s, 1, Len(s) - 1))
    ELSE s

Returned(v, api_called) == [value |-> v, raised |-> "", api_called |-> api_called]
Raised(exc, api_called) == [value |-> "", raised |-> exc, api_called |-> api_called]

\* What client.chat.completions.create does on one call: it returns a
\* response with the given content, or raises.
ApiOutcomes ==
    {[kind |-> "ok", text |-> " The salary is $150,000.\n"],
     [kind |-> "ok", text |-> "Error: I cannot answer that."],
     [kind |-> "AuthenticationError", text |-> "Incorrect API key provided"],
     [kind |-> "RateLimitError", text |-> "Rate limit reached"],
     [kind |-> "APIConnectionError", text |-> "Connection error."],
     [kind |-> "BadRequestError", text |-> "Error code: 400"],
     [kind |-> "AttributeError", text |-> "'NoneType' object has no attribute 'strip'"]}

\* A generate_answer whose last except clause lets the exception go.
generate_answer_reraising(gen, q, context_chunks, api) ==
    IF gen.api_key = ""
    THEN Returned("Error: OPENAI_API_KEY is missing. Please set it in your .env file.", FALSE)
    ELSE IF context_chunks = <<>>
    THEN Returned("I don't have enough data to answer that question.", FALSE)
    ELSE CASE api.kind = "ok" -> Returned(Strip(api.text), TRUE)
           [] api.kind = "AuthenticationError" ->
                Returned("Error: Invalid OpenAI API key. Please check your .env file.", TRUE)
           [] api.kind = "RateLimitError" ->
                Returned("Error: OpenAI rate limit reached. Please wait a moment and try again.", TRUE)
           [] api.kind = "APIConnectionError" ->
                Returned("Error: Failed to connect to OpenAI API. Please check your internet connection.", TRUE)
           [] OTHER -> Raised(api.kind, TRUE)

\* Generator.generate_answer of the OpenAI-backed generator
Generator_generate_answer(gen, q, context_chunks, api) ==
    IF gen.api_key = ""
    THEN Returned("Error: OPENAI_API_KEY is missing. Please set it in your .env file.", FALSE)
    ELSE IF context_chunks = <<>>
    THEN Returned("I don't have enough data to answer that question.", FALSE)
    ELSE CASE api.kind = "ok" -> Returned(Strip(api.text), TRUE)
           [] api.kind = "AuthenticationError" ->
                Returned("Error: Invalid OpenAI API key. Please check your .env file.", TRUE)
           [] api.kind = "RateLimitError" ->
                Returned("Error: OpenAI rate limit reached. Please wait a moment and try again.", TRUE)
           [] api.kind = "APIConnectionError" ->
                Returned("Error: Failed to connect to OpenAI API. Please check your internet connection.", TRUE)
           [] OTHER -> Returned("Error generating answer: " \o api.text, TRUE)

\* self.generator.generate_answer(...): the pipeline's generator is a
\* Generator or, as in the tests, a mock with a return value or a side effect.
generate_answer(gen, q, context_chunks, api) ==
    IF gen.kind = "Mock"
    THEN IF gen.side_effect # "" THEN Raised(gen.side_effect, FALSE)
         ELSE Returned(gen.return_value, FALSE)
    ELSE Generator_generate_answer(gen, q, context_chunks, api)

RECURSIVE Bullets(_, _)
Bullets(chunks, n) ==
    IF n = 0 \/ chunks = <<>> THEN ""
    ELSE "* " \o Head(chunks) \o "\n" \o Bullets(Tail(chunks), n - 1)

DEFAULT_MAX_CHUNKS == 3

\* A LocalAdvisor that lists every chunk it is given.
LocalAdvisor_listing_all(q, context_chunks, max_chunks) ==
    IF context_chunks = <<>>
    THEN "I don't have enough data in my local knowledge base to answer that."
    ELSE "Based on my semantic search, here are the key facts:\n"
         \o Bullets(context_chunks, Len(context_chunks))
         \o "\n[Note: This answer was generated by the LocalAdvisor fallback because the LLM API is unavailable.]"

\* LocalAdvisor.generate_answer
LocalAdvisor_generate_answer(q, context_chunks, max_chunks) ==
    IF context_chunks = <<>>
    THEN "I don't have enough data in my local knowledge base to answer that."
    ELSE "Based on my semantic search, here are the key facts:\n"
         \o Bullets(context_chunks, max_chunks)
         \o "\n[Note: This answer was generated by the LocalAdvisor fallback because the LLM API is unavailable.]"

\* The outcome of a call on the pipeline: the dict returned or the exception
\* raised, and how often the generator, the API and the fallback were called.
Outcome(value, raised, gen_calls, gen_raised, api_calls, fallback_calls) ==
    [value |-> value, raised |-> raised, gen_calls |-> gen_calls, gen_raised |-> gen_raised,
     api_calls |-> api_calls, fallback_calls |-> fallback_calls]

\* No dict: the call raised.
NoValue == [source |-> ""]

Texts(results) == [i \in 1..Len(results) |-> results[i].text]
Scores(results) == [i \in 1..Len(results) |-> results[i].score]
BoolToNat(b) == IF b THEN 1 ELSE 0

\* Mutant: no early return on an empty retrieval.
run_without_empty_check(p, q, use_fallback, retrieval_results, api) ==
    LET context_chunks == Texts(retrieval_results)
        g == generate_answer(p, q, context_chunks, api)
        failed == use_fallback /\ StartsWith(g.value, "Error:")
    IN IF g.raised # ""
       THEN Outcome(NoValue, g.raised, 1, TRUE, BoolToNat(g.api_called), 0)
       ELSE Outcome([query |-> q,
                     answer |-> IF failed
                                THEN LocalAdvisor_generate_answer(q, context_chunks, DEFAULT_MAX_CHUNKS)
                                ELSE g.value,
                     context |-> context_chunks,
                     scores |-> Scores(retrieval_results),
                     source |-> IF failed THEN "fallback" ELSE "llm"],
                    "", 1, FALSE, BoolToNat(g.api_called), BoolToNat(failed))

\* Mutant: the generation is wrapped in try/except and every exception goes to
\* the fallback, whatever use_fallback says.
run_catching(p, q, use_fallback, retrieval_results, api) ==
    LET context_chunks == Texts(retrieval_results)
        g == generate_answer(p, q, context_chunks, api)
        failed == g.raised # "" \/ (use_fallback /\ StartsWith(g.value, "Error:"))
    IN IF retrieval_results = <<>>
       THEN Outcome([query |-> q,
                     answer |-> "I couldn't find any relevant information in the knowledge base.",
                     context |-> <<>>, scores |-> <<>>, source |-> "no_results"],
                    "", 0, FALSE, 0, 0)
       ELSE Outcome([query |-> q,
                     answer |-> IF failed
                                THEN LocalAdvisor_generate_answer(q, context_chunks, DEFAULT_MAX_CHUNKS)
                                ELSE g.value,
                     context |-> context_chunks,
                     scores |-> Scores(retrieval_results),
                     source |-> IF failed THEN "fallback" ELSE "llm"],
                    "", 1, g.raised # "", BoolToNat(g.api_called), BoolToNat(failed))

\* RAGPipeline.run, given what self.retriever.search(query, k) returned and
\* what the API does if it is called.
run(p, q, use_fallback, retrieval_results, api) ==
    IF retrieval_results = <<>>
    THEN Outcome([query |-> q,
                  answer |-> "I couldn't find any relevant information in the knowledge base.",
                  context |-> <<>>, scores |-> <<>>, source |-> "no_results"],
                 "", 0, FALSE, 0, 0)
    ELSE LET context_chunks == Texts(retrieval_results)
             g == generate_answer(p, q, context_chunks, api)
             failed == use_fallback /\ StartsWith(g.value, "Error:")
         IN IF g.raised # ""
            THEN Outcome(NoValue, g.raised, 1, TRUE, BoolToNat(g.api_called), 0)
            ELSE Outcome([query |-> q,
                          answer |-> IF failed
                                     THEN LocalAdvisor_generate_answer(q, context_chunks, DEFAULT_MAX_CHUNKS)
                                     ELSE g.value,
                          context |-> context_chunks,
                          scores |-> Scores(retrieval_results),
                          source |-> IF failed THEN "fallback" ELSE "llm"],
                         "", 1, FALSE, BoolToNat(g.api_called), BoolToNat(failed))

LOCAL_INSIGHT_CHUNKS == 5

\* RAGPipeline._generate_local_insight
generate_local_insight(job_title, context_chunks) ==
    "## Career Insight Report: " \o job_title \o "\n\n"
    \o "### Salary Data Found:\n"
    \o Bullets(context_chunks, LOCAL_INSIGHT_CHUNKS)
    \o "\n### Summary:\n"
    \o "Based on " \o ToString(Len(context_chunks)) \o " relevant records found in the database.\n"
    \o "\n[Note: Detailed analysis requires LLM access. This is a simplified local report.]"

RECURSIVE JoinLines(_)
JoinLines(chunks) ==
    IF chunks = <<>> THEN ""
    ELSE IF Len(chunks) = 1 THEN chunks[1]
    ELSE chunks[1] \o "\n" \o JoinLines(Tail(chunks))

insight_prompt(job_title, context) ==
    "Summarize the following data into a high-level Career Insight Report for: "
    \o job_title \o "\n\nInclude:\n"
    \o "1. Typical Salary Range (min, max, average if apparent)\n"
    \o "2. Most common location/remote status patterns\n"
    \o "3. Experience levels represented\n"
    \o "4. A practical tip for candidates applying for this role\n\n"
    \o "Format your response clearly with bullet points or sections.\n\n"
    \o "CONTEXT:\n" \o JoinLines(context) \o "\n"

\* RAGPipeline.get_salary_insight: self.run(query, k=k), then one more
\* generate_answer for the report; api1 and api2 are what the API does on
\* the first and on the second call made to it.
get_salary_insight(p, job_title, retrieval_results, api1, api2) ==
    LET q == "What is the average salary and common remote work status for " \o job_title \o "?"
        results == run(p, q, TRUE, retrieval_results, api1)
    IN IF results.raised # "" THEN results
       ELSE LET context == results.value.context
                g == generate_answer(p, insight_prompt(job_title, context), context,
                                     IF results.api_calls = 0 THEN api1 ELSE api2)
                gen_calls == results.gen_calls + 1
                api_calls == results.api_calls + BoolToNat(g.api_called)
            IN IF g.raised # ""
               THEN Outcome(NoValue, g.raised, gen_calls, TRUE, api_calls, results.fallback_calls)
               ELSE Outcome([job_title |-> job_title,
                             report |-> IF StartsWith(g.value, "Error:")
                                        THEN generate_local_insight(job_title, context)
                                        ELSE g.value,
                             supporting_data |-> context,
                             num_records_analyzed |-> Len(context)],
                            "", gen_calls, FALSE, api_calls, results.fallback_calls)

(***************************************************************************)
(* rag_from_scratch: the operations.                                       *)
(***************************************************************************)
\* The text_chunk column of the DataFrame the retriever reads.
Rows ==
    <<"In 2024, a Senior-level Data Scientist in US earned 150,000 USD.",
      "In 2024, a Mid-level ML Engineer in US earned 120,000 USD.",
      "In 2023, an Entry-level Data Analyst in UK earned 80,000 USD.">>

\* Similarity scores by rank, in hundredths.
RankScores == <<91, 64, 37>>

IsInjective(l) == \A i, j \in 1..Len(l) : l[i] = l[j] => i = j

\* What Retriever.search(query, k) may return: at most k rows, each once,
\* with scores in rank order.
Retrievals(k) ==
    LET n == IF k < Len(Rows) THEN k ELSE Len(Rows)
    IN {[i \in 1..Len(l) |-> [text |-> Rows[l[i]], score |-> RankScores[i], index |-> l[i] - 1]] :
           l \in {m \in ListsUpTo(1..Len(Rows), n) : IsInjective(m)}}

Pipelines ==
    {[kind |-> "Generator", api_key |-> "sk-test", side_effect |-> "", return_value |-> ""],
     [kind |-> "Generator", api_key |-> "", side_effect |-> "", return_value |-> ""],
     [kind |-> "Mock", api_key |-> "", side_effect |-> "", return_value |-> "The salary is $150,000."],
     [kind |-> "Mock", api_key |-> "", side_effect |-> "GenerationError", return_value |-> ""]}

InitPipe == GraphIdle /\ CtlIdle /\ StoreIdle /\ CleanIdle /\ LoadIdle /\ MainIdle /\ AgentIdle /\ AskIdle /\ BootIdle /\ CvIdle /\ pipeline \in Pipelines /\ out = NoCall

\* pipeline.run(query, k, use_fallback)
Run ==
    \E k \in 1..MaxK, use_fallback \in BOOLEAN, api \in ApiOutcomes :
        \E retrieval_results \in Retrievals(k) :
            /\ out' = [op |-> "run", k |-> k, use_fallback |-> use_fallback,
                       retrieved |-> Len(retrieval_results), api |-> <<api.kind>>,
                       outcome |-> run(pipeline, "Data Scientist salary", use_fallback,
                                       retrieval_results, api)]
            /\ UNCHANGED <<kg, addOnEmpty, ret, query, route, pipeline, storeVars, frame, loadVars, mainp, agent, asked, boot, cvapp>>

\* pipeline.get_salary_insight(job_title, k)
SalaryInsight ==
    \E k \in 1..MaxK, api1 \in ApiOutcomes, api2 \in ApiOutcomes :
        \E retrieval_results \in Retrievals(k) :
            /\ out' = [op |-> "get_salary_insight", k |-> k, use_fallback |-> TRUE,
                       retrieved |-> Len(retrieval_results), api |-> <<api1.kind, api2.kind>>,
                       outcome |-> get_salary_insight(pipeline, "Data Scientist",
                                                      retrieval_results, api1, api2)]
            /\ UNCHANGED <<kg, addOnEmpty, ret, query, route, pipeline, storeVars, frame, loadVars, mainp, agent, asked, boot, cvapp>>

\* pipeline.generator.generate_answer(query, context_chunks) on a Generator
Generate ==
    \E api \in ApiOutcomes :
        \E retrieval_results \in Retrievals(MaxK) :
            /\ pipeline.kind = "Generator"
            /\ out' = [op |-> "generate_answer", context |-> Texts(retrieval_results),
                       api |-> <<api.kind>>,
                       outcome |-> Generator_generate_answer(pipeline, "Data Scientist salary",
                                                             Texts(retrieval_results), api)]
            /\ UNCHANGED <<kg, addOnEmpty, ret, query, route, pipeline, storeVars, frame, loadVars, mainp, agent, asked, boot, cvapp>>

\* LocalAdvisor().generate_answer(query, context_chunks, max_chunks)
Advise ==
    \E max_chunks \in 0..DEFAULT_MAX_CHUNKS :
        \E retrieval_results \in Retrievals(DEFAULT_MAX_CHUNKS) :
            /\ out' = [op |-> "local_advisor", context |-> Texts(retrieval_results),
                       max_chunks |-> max_chunks,
                       answer |-> LocalAdvisor_generate_answer("Data Scientist salary",
                                                               Texts(retrieval_results),
                                                               max_chunks)]
            /\ UNCHANGED <<kg, addOnEmpty, ret, query, route, pipeline, storeVars, frame, loadVars, mainp, agent, asked, boot, cvapp>>

NextPipe == Run \/ SalaryInsight \/ Generate \/ Advise

SpecPipe == InitPipe /\ [][NextPipe]_vars

(***************************************************************************)
(* rag_from_scratch: properties.                                           *)
(***************************************************************************)
\* The call was run() and the OpenAI-backed generator was asked and failed:
\* the key is missing, or the API call raised.
GeneratorFailedInRun ==
    /\ out.op = "run"
    /\ out.retrieved > 0
    /\ pipeline.kind = "Generator"
    /\ pipeline.api_key = "" \/ out.api[1] # "ok"

IsFallbackResult(o) ==
    /\ o.raised = ""
    /\ o.value.source = "fallback"
    /\ o.value.answer =
          LocalAdvisor_generate_answer(o.value.query, o.value.context, DEFAULT_MAX_CHUNKS)

\* C6: with use_fallback, every failure of Generator.generate_answer (missing
\* key, authentication, rate limit, connection, any other exception of the
\* API call) makes run return source "fallback" and the LocalAdvisor answer.
C6_FallbackOnEveryGeneratorFailure ==
    (GeneratorFailedInRun /\ out.use_fallback) => IsFallbackResult(out.outcome)

\* C7: when generate_answer raises and use_fallback is set, run returns the
\* fallback result instead of propagating the exception.
C7_FallbackWhenGeneratorRaises ==
    (out.op = "run" /\ out.outcome.gen_raised /\ out.use_fallback) =>
        IsFallbackResult(out.outcome)

\* C8: when generate_answer raises and use_fallback is not set, run
\* propagates the exception: no dict is returned and LocalAdvisor is not
\* called.
C8_PropagatesWithoutFallback ==
    (out.op = "run" /\ pipeline.side_effect # "" /\ out.retrieved > 0 /\ ~out.use_fallback) =>
        /\ out.outcome.raised = pipeline.side_effect
        /\ out.outcome.value = NoValue
        /\ out.outcome.fallback_calls = 0

\* run(use_fallback=False) on a pipeline whose generator raises, with rows
\* retrieved: the exception left the call.
C8_Witness ==
    /\ out.op = "run" /\ ~out.use_fallback /\ out.retrieved > 0
    /\ out.outcome.gen_raised
    /\ out.outcome.raised = "GenerationError"

\* C9: an empty retrieval makes run return source "no_results" with empty
\* context and scores, and neither the generator nor LocalAdvisor is called;
\* otherwise a returned source is "llm" or "fallback", and "fallback" only
\* with use_fallback.
C9_SourceOfRun ==
    out.op = "run" =>
        /\ out.retrieved = 0 =>
              /\ out.outcome.raised = ""
              /\ out.outcome.value.source = "no_results"
              /\ out.outcome.value.context = <<>>
              /\ out.outcome.value.scores = <<>>
              /\ out.outcome.gen_calls = 0
              /\ out.outcome.fallback_calls = 0
        /\ (out.retrieved > 0 /\ out.outcome.raised = "") =>
              /\ out.outcome.value.source \in {"llm", "fallback"}
              /\ out.outcome.value.source = "fallback" => out.use_fallback

\* run() on the pipeline with a working key, nothing retrieved.
C9_Witness ==
    /\ out.op = "run" /\ out.retrieved = 0
    /\ pipeline.kind = "Generator" /\ pipeline.api_key # ""
    /\ out.outcome.value.source = "no_results"

\* C10: one get_salary_insight call invokes generate_answer exactly once.
C10_InsightCallsGeneratorOnce ==
    (out.op = "get_salary_insight" /\ out.outcome.raised = "") =>
        out.outcome.gen_calls = 1

\* C11: a get_salary_insight call during which the generator raises
\* GenerationError still returns a result, and its report is the local
\* Career Insight Report built from the retrieved chunks.
C11_InsightFallsBackWhenGeneratorRaises ==
    (out.op = "get_salary_insight" /\ pipeline.side_effect = "GenerationError") =>
        /\ out.outcome.raised = ""
        /\ StartsWith(out.outcome.value.report, "## Career Insight Report: Data Scientist")
        /\ Contains(out.outcome.value.report, "This is a simplified local report.")

(***************************************************************************)
(* graph_rag: properties.                                                  *)
(***************************************************************************)
\* The nodes within d hops of the nodes of S, edges followed in either
\* direction.
Adjacent(S) ==
    {m \in kg.nodes : \E n \in S : <<n, m>> \in Edges(kg) \/ <<m, n>> \in Edges(kg)}

RECURSIVE Within(_, _)
Within(S, d) == IF d = 0 THEN S ELSE Within(S \cup Adjacent(S), d - 1)

\* The edges with an endpoint within max_depth - 1 hops of the entity.
EdgesInRange(entity, max_depth) ==
    {p \in Edges(kg) : p[1] \in Within({entity}, max_depth - 1)
                        \/ p[2] \in Within({entity}, max_depth - 1)}

TripleOf(p) == Triple(p[1], kg.label[p], p[2])

\* C1: a retrieval from a node of the graph returns the triple of every
\* edge, outgoing or incoming, that has an endpoint within max_depth - 1
\* hops of the entity, whatever the order in which neighbours are visited.
C1_CoversEveryEdgeInRange ==
    (ret.called /\ ret.entity \in kg.nodes) =>
        \A p \in EdgesInRange(ret.entity, ret.max_depth) : TripleOf(p) \in ret.context

\* C2: every triple a retrieval returns is the triple of an edge with an
\* endpoint within max_depth - 1 hops of the entity.
C2_NoTripleBeyondDepth ==
    ret.called =>
        \A t \in ret.context :
            \E p \in EdgesInRange(ret.entity, ret.max_depth) : t = TripleOf(p)

\* A 1-hop retrieval on the chain A -> B -> C that returned "A r B" while
\* the graph holds the edge B -> C.
C2_Witness ==
    /\ ret.called /\ ret.entity = "A" /\ ret.max_depth = 1
    /\ "A r B" \in ret.context
    /\ <<"B", "C">> \in Edges(kg)
    /\ "B r C" \notin ret.context

\* C3: a retrieval for a name that is not a node returns the empty string,
\* raises nothing and leaves the graph as it was.
C3_UnknownEntityYieldsEmpty ==
    [][(ret'.called /\ ret'.entity \notin kg.nodes) =>
          (ret'.text = "" /\ ret'.raised = "" /\ kg' = kg)]_vars

\* A retrieval for D on a graph that holds other nodes but not D.
C3_Witness ==
    /\ ret.called /\ ret.entity = "D" /\ "D" \notin kg.nodes
    /\ kg.nodes # {}
    /\ ret.text = ""

\* The valid triples of a list: dicts whose head, relation and tail are all
\* present and non-empty.
IsValid(item) ==
    /\ item.isdict
    /\ \A v \in {item.head, item.relation, item.tail} : v # PyNone /\ v # Str("")

ValidOf(triples) == {i \in 1..Len(triples) : IsValid(triples[i])}

MaxVectors == 2    \* vectors in the FAISS index
MaxTopK == 3       \* largest k passed to Retriever.search

DIMENSION == 2

Array(dtype, cols, rows) == [dtype |-> dtype, shape |-> <<Len(rows), cols>>, data |-> rows]

Float32(x) == x - (x % 2)

\* ndarray.astype('float32')
astype_float32(a) ==
    [dtype |-> "float32", shape |-> a.shape,
     data |-> [i \in 1..Len(a.data) |-> [j \in 1..Len(a.data[i]) |-> Float32(a.data[i][j])]]]

\* VectorStore(dimension): self.index = faiss.IndexFlatIP(dimension)
VectorStore(dimension) == [dimension |-> dimension, d |-> dimension, index |-> <<>>]

\* VectorStore.size
size(s) == Len(s.index)

\* An add that appends the rows whatever their width.
add_any_width(s, vectors) ==
    LET v == IF vectors.dtype # "float32" THEN astype_float32(vectors) ELSE vectors
    IN [store |-> [s EXCEPT !.index = @ \o v.data],
        raised |-> IF v.shape[2] # s.dimension THEN "ValueError" ELSE ""]

\* An add that takes float32 input only and drops anything else.
add_float32_only(s, vectors) ==
    IF vectors.shape[2] # s.dimension THEN [store |-> s, raised |-> "ValueError"]
    ELSE IF vectors.dtype # "float32" THEN [store |-> s, raised |-> ""]
    ELSE [store |-> [s EXCEPT !.index = @ \o vectors.data], raised |-> ""]

\* VectorStore.add; index.add asserts that the rows have the index's width
add(s, vectors) ==
    LET v == IF vectors.dtype # "float32" THEN astype_float32(vectors) ELSE vectors
    IN IF v.shape[2] # s.dimension
       THEN [store |-> s, raised |-> "ValueError"]
       ELSE IF v.shape[2] # s.d
       THEN [store |-> s, raised |-> "AssertionError"]
       ELSE [store |-> [s EXCEPT !.index = @ \o v.data], raised |-> ""]

\* os.path.dirname: what precedes the last "/"
RECURSIVE dirname_from(_, _)
dirname_from(path, i) ==
    IF i = 0 THEN ""
    ELSE IF CharAt(path, i) = "/" THEN SubSeq(path, 1, i - 1)
    ELSE dirname_from(path, i - 1)

dirname(path) == dirname_from(path, Len(path))

\* faiss.write_index: the header and the vectors as one flat array
RECURSIVE Flatten(_)
Flatten(rows) == IF rows = <<>> THEN <<>> ELSE Head(rows) \o Flatten(Tail(rows))

write_index(s) == [d |-> s.d, ntotal |-> Len(s.index), codes |-> Flatten(s.index)]

\* faiss.read_index
read_index(f) ==
    [i \in 1..f.ntotal |-> SubSeq(f.codes, (i - 1) * f.d + 1, i * f.d)]

\* VectorStore.save: os.makedirs on the directory part, then write_index
save(s, fs, path) ==
    IF dirname(path) = ""
    THEN [files |-> fs, raised |-> "FileNotFoundError"]
    ELSE [files |-> [p \in DOMAIN fs \cup {path} |-> IF p = path THEN write_index(s) ELSE fs[p]],
          raised |-> ""]

\* A load that appends what it reads to the index in hand.
load_appending(s, fs, path) ==
    IF path \notin DOMAIN fs
    THEN [store |-> s, raised |-> "FileNotFoundError"]
    ELSE [store |-> [s EXCEPT !.d = fs[path].d, !.index = @ \o read_index(fs[path])],
          raised |-> ""]

\* A load that drops the index in hand before it looks for the file.
load_clearing_first(s, fs, path) ==
    IF path \notin DOMAIN fs
    THEN [store |-> [s EXCEPT !.index = <<>>], raised |-> "FileNotFoundError"]
    ELSE [store |-> [s EXCEPT !.d = fs[path].d, !.index = read_index(fs[path])],
          raised |-> ""]

\* VectorStore.load: self.index becomes the index of the file, self.dimension
\* is not assigned
load(s, fs, path) ==
    IF path \notin DOMAIN fs
    THEN [store |-> s, raised |-> "FileNotFoundError"]
    ELSE [store |-> [s EXCEPT !.d = fs[path].d, !.index = read_index(fs[path])],
          raised |-> ""]

(***************************************************************************)
(* rag_from_scratch: similarity search (vector_store.py, retriever.py).    *)
(***************************************************************************)
RECURSIVE InnerProduct(_, _)
InnerProduct(a, b) ==
    IF a = <<>> \/ b = <<>> THEN 0
    ELSE Head(a) * Head(b) + InnerProduct(Tail(a), Tail(b))

\* The score FAISS reports at a position it has no vector for.
LowestScore == 0 - 1000000

Min(a, b) == IF a < b THEN a ELSE b

\* Any order of the positions of the index, best or not.
RankingsUnsorted(index, q, k) ==
    {l \in ListsUpTo(0..(Len(index) - 1), Min(k, Len(index))) :
        Len(l) = Min(k, Len(index)) /\ IsInjective(l)}

\* The positions of the min(k, ntotal) vectors with the largest inner
\* product with q, best first; vectors of equal score in either order.
Rankings(index, q, k) ==
    LET sc(i) == InnerProduct(index[i + 1], q)
    IN {l \in ListsUpTo(0..(Len(index) - 1), Min(k, Len(index))) :
          /\ Len(l) = Min(k, Len(index))
          /\ IsInjective(l)
          /\ \A i \in 1..(Len(l) - 1) : sc(l[i]) >= sc(l[i + 1])
          /\ \A j \in 0..(Len(index) - 1) :
                (\A i \in 1..Len(l) : l[i] # j) => (Len(l) > 0 /\ sc(j) <= sc(l[Len(l)]))}

\* IndexFlatIP.search for one query: k scores and k positions, -1 where the
\* index has fewer than k vectors.
index_search(index, q, k) ==
    {[scores |-> [i \in 1..k |-> IF i <= Len(l) THEN InnerProduct(index[l[i] + 1], q)
                                  ELSE LowestScore],
      indices |-> [i \in 1..k |-> IF i <= Len(l) THEN l[i] ELSE 0 - 1]] :
        l \in Rankings(index, q, k)}

\* VectorStore.search
VectorStore_search(s, query_vectors, k) ==
    LET qv == IF query_vectors.dtype # "float32" THEN astype_float32(query_vectors)
              ELSE query_vectors
    IN index_search(s.index, qv.data[1], k)

RECURSIVE search_loop_keeping_placeholders(_, _, _, _)
RECURSIVE search_loop(_, _, _, _)

\* A loop with no test for -1: iloc[-1] is the last row of the data.
search_loop_keeping_placeholders(data, found, i, results) ==
    IF i > Len(found.indices) THEN results
    ELSE LET idx == found.indices[i]
         IN IF idx >= Len(data) \/ (idx = 0 - 1 /\ data = <<>>)
            THEN search_loop_keeping_placeholders(data, found, i + 1, results)
            ELSE search_loop_keeping_placeholders(data, found, i + 1,
                     Append(results, [text |-> IF idx = 0 - 1 THEN data[Len(data)]
                                               ELSE data[idx + 1],
                                      score |-> found.scores[i],
                                      index |-> idx]))

\* Retriever.search, the loop over indices[0]
search_loop(data, found, i, results) ==
    IF i > Len(found.indices) THEN results
    ELSE LET idx == found.indices[i]
         IN IF idx = 0 - 1 THEN search_loop(data, found, i + 1, results)
            ELSE IF idx >= Len(data) THEN search_loop(data, found, i + 1, results)
            ELSE search_loop(data, found, i + 1,
                     Append(results, [text |-> data[idx + 1],
                                      score |-> found.scores[i],
                                      index |-> idx]))

\* Retriever.search with the query already encoded: what FAISS found and
\* the results built from it.
Retriever_search(s, data, query_vector, k) ==
    {[found |-> found, results |-> search_loop(data, found, 1, <<>>)] :
        found \in VectorStore_search(s, query_vector, k)}

(***************************************************************************)
(* rag_from_scratch: the operations on a VectorStore and its Retriever.    *)
(***************************************************************************)
\* The arrays handed to add: float32 and float64, one or two rows, of the
\* store's width or not, and an array of no rows.
Arrays ==
    {Array("float32", 2, << <<2, 0>> >>),
     Array("float32", 2, << <<0, 2>>, <<2, 0>> >>),
     Array("float64", 2, << <<1, 3>> >>),
     Array("float64", 2, << <<3, 1>>, <<1, 3>> >>),
     Array("float32", 2, <<>>),
     Array("float32", 3, << <<2, 0, 0>> >>),
     Array("float64", 1, << <<3>>, <<1>> >>)}

\* What Embedder.encode returns for the queries.
QueryVectors ==
    {Array("float32", 2, << <<2, 2>> >>),
     Array("float64", 2, << <<1, 3>> >>)}

Paths == {"data/index.bin", "index.bin"}

\* The first n text chunks of the DataFrame.
Data(n) == SubSeq(Rows, 1, n)

InitStore ==
    /\ GraphIdle /\ CtlIdle /\ PipeIdle /\ CleanIdle /\ LoadIdle /\ MainIdle /\ AgentIdle /\ AskIdle /\ BootIdle /\ CvIdle
    /\ store = VectorStore(DIMENSION)
    /\ files = <<>>
    /\ ghost = NoGhost
    /\ call = NoCall

\* store = VectorStore(dimension)
NewStore ==
    /\ store' = VectorStore(DIMENSION)
    /\ ghost' = [ghost EXCEPT !.added = 0, !.loaded = FALSE]
    /\ call' = [op |-> "new"]
    /\ UNCHANGED <<kg, addOnEmpty, ret, query, route, pipeline, out, files, frame, loadVars, mainp, agent, asked, boot, cvapp>>

\* store.add(vectors)
Add ==
    \E vectors \in Arrays :
        /\ size(store) + vectors.shape[1] <= MaxVectors
        /\ ghost.added + vectors.shape[1] <= MaxVectors
        /\ LET r == add(store, vectors)
           IN /\ store' = r.store
              /\ ghost' = [ghost EXCEPT !.added = IF r.raised = "" THEN @ + vectors.shape[1]
                                                  ELSE @]
              /\ call' = [op |-> "add", raised |-> r.raised, dtype |-> vectors.dtype,
                          shape |-> vectors.shape, size_before |-> size(store)]
        /\ UNCHANGED <<kg, addOnEmpty, ret, query, route, pipeline, out, files, frame, loadVars, mainp, agent, asked, boot, cvapp>>

\* store.save(path)
Save ==
    \E path \in Paths :
        LET r == save(store, files, path)
        IN /\ files' = r.files
           /\ ghost' = IF r.raised = ""
                       THEN [ghost EXCEPT !.saved =
                                [p \in DOMAIN @ \cup {path} |->
                                    IF p = path THEN store.index ELSE @[p]]]
                       ELSE ghost
           /\ call' = [op |-> "save", raised |-> r.raised, path |-> path]
           /\ UNCHANGED <<kg, addOnEmpty, ret, query, route, pipeline, out, store, frame, loadVars, mainp, agent, asked, boot, cvapp>>

\* store.load(path)
Load ==
    \E path \in Paths :
        LET r == load(store, files, path)
        IN /\ store' = r.store
           /\ ghost' = IF r.raised = "" THEN [ghost EXCEPT !.loaded = TRUE] ELSE ghost
           /\ call' = [op |-> "load", raised |-> r.raised, path |-> path,
                       existed |-> path \in DOMAIN files, index_before |-> store.index]
           /\ UNCHANGED <<kg, addOnEmpty, ret, query, route, pipeline, out, files, frame, loadVars, mainp, agent, asked, boot, cvapp>>

\* Retriever(embedder, store, data).search(query, k)
Search ==
    \E n \in 0..Len(Rows), query_vector \in QueryVectors, k \in 1..MaxTopK :
        \E r \in Retriever_search(store, Data(n), query_vector, k) :
            /\ call' = [op |-> "search", k |-> k, data |-> Data(n),
                        found |-> r.found, results |-> r.results]
            /\ UNCHANGED <<kg, addOnEmpty, ret, query, route, pipeline, out,
                           store, files, ghost, frame, loadVars, mainp, agent, asked, boot, cvapp>>

NextStore == NewStore \/ Add \/ Save \/ Load \/ Search

SpecStore == InitStore /\ [][NextStore]_vars

(***************************************************************************)
(* rag_from_scratch: properties of the VectorStore and the Retriever.      *)
(***************************************************************************)
\* C12: an add of vectors whose second dimension is not the store's raises
\* ValueError and leaves the store, its index and so its size, as it was.
C12_WrongDimensionLeavesIndex ==
    [][(call'.op = "add" /\ call'.shape[2] # store.dimension) =>
           (call'.raised = "ValueError" /\ store' = store
            /\ size(store') = call'.size_before)]_vars

\* A rejected add on a store that already holds a vector.
C12_Witness ==
    /\ call.op = "add" /\ call.shape[2] # store.dimension
    /\ call.raised = "ValueError"
    /\ size(store) > 0

C15_MissingFileLeavesIndex ==
    [][(call'.op = "load" /\ ~call'.existed) =>
           (call'.raised = "FileNotFoundError" /\ store' = store
            /\ call'.index_before = store'.index)]_vars

\* A failed load on a store that holds vectors.
C15_Witness ==
    /\ call.op = "load" /\ ~call.existed
    /\ call.raised = "FileNotFoundError"
    /\ size(store) > 0

\* C16: search returns at most min(k, indexed vectors) results; each has an
\* index within the data, never the placeholder -1, the text of the data row
\* at that index, and the score FAISS gave at the rank of that index.
C16_SearchResultsWithinData ==
    call.op = "search" =>
        /\ Len(call.results) <= Min(call.k, size(store))
        /\ \A j \in 1..Len(call.results) :
              LET r == call.results[j]
              IN /\ 0 <= r.index /\ r.index < Len(call.data)
                 /\ r.text = call.data[r.index + 1]
                 /\ \E i \in 1..call.k : /\ call.found.indices[i] = r.index
                                         /\ call.found.scores[i] = r.score

\* A search with k above the index size: FAISS padded with -1 and a result
\* was still returned.
C16_Witness ==
    /\ call.op = "search" /\ call.k > size(store)
    /\ \E i \in 1..call.k : call.found.indices[i] = 0 - 1
    /\ Len(call.results) > 0

C18_GeneratorAlwaysReturnsString ==
    out.op = "generate_answer" =>
        /\ out.outcome.raised = ""
        /\ out.outcome.value \in STRING
        /\ out.outcome.api_called => (pipeline.api_key # "" /\ out.context # <<>>)
        /\ pipeline.api_key = "" =>
              out.outcome.value =
                  "Error: OPENAI_API_KEY is missing. Please set it in your .env file."
        /\ (pipeline.api_key # "" /\ out.context = <<>>) =>
              out.outcome.value = "I don't have enough data to answer that question."

\* The API call raised an exception that has no except clause of its own,
\* and generate_answer returned.
C18_Witness ==
    /\ out.op = "generate_answer"
    /\ out.api = <<"BadRequestError">>
    /\ out.outcome.api_called
    /\ out.outcome.raised = ""

\* The least position at which w occurs in s, 0 when it does not.
PositionOf(s, w) ==
    IF Contains(s, w)
    THEN CHOOSE i \in 1..(Len(s) - Len(w) + 1) :
             /\ SubSeq(s, i, i + Len(w) - 1) = w
             /\ \A j \in 1..(i - 1) : SubSeq(s, j, j + Len(w) - 1) # w
    ELSE 0

\* C19: LocalAdvisor.generate_answer returns the not-enough-data message for
\* an empty context; otherwise the answer holds the first
\* min(max_chunks, len(context_chunks)) chunks, in their order, none of the
\* chunks after them, and the LocalAdvisor note.
C19_LocalAdvisorListsFirstChunks ==
    out.op = "local_advisor" =>
        LET n == Min(out.max_chunks, Len(out.context))
        IN /\ out.context = <<>> =>
                 out.answer = "I don't have enough data in my local knowledge base to answer that."
           /\ out.context # <<>> =>
                 /\ \A i \in 1..n : Contains(out.answer, out.context[i])
                 /\ \A i \in 1..(n - 1) :
                       PositionOf(out.answer, out.context[i])
                           < PositionOf(out.answer, out.context[i + 1])
                 /\ \A i \in (n + 1)..Len(out.context) : ~Contains(out.answer, out.context[i])
                 /\ Contains(out.answer, "generated by the LocalAdvisor fallback")

\* Three chunks handed over with max_chunks = 2: two listed, one left out.
C19_Witness ==
    /\ out.op = "local_advisor"
    /\ Len(out.context) = 3 /\ out.max_chunks = 2
    /\ Contains(out.answer, out.context[2])
    /\ ~Contains(out.answer, out.context[3])

(***************************************************************************)
(* rag_from_scratch: ingestion.clean_data.                                 *)
(*                                                                         *)
(* A DataFrame is its set of columns and the sequence of its rows, a row   *)
(* being a function from the columns to the cell values.                   *)
(***************************************************************************)
MaxRows == 2      \* rows of the DataFrame handed to clean_data
MaxPasses == 2    \* times clean_data is applied in a row

EXPERIENCE_MAPPING ==
    [EN |-> "Entry-level", MI |-> "Mid-level", SE |-> "Senior-level", EX |-> "Executive-level"]

EMPLOYMENT_MAPPING ==
    [FT |-> "Full-time", PT |-> "Part-time", CT |-> "Contract", FL |-> "Freelance"]

COMPANY_SIZE_MAPPING == [S |-> "small", M |-> "medium", L |-> "large"]

\* df.drop_duplicates(): of equal rows the first is kept
RECURSIVE drop_duplicates_from(_, _, _)
drop_duplicates_from(rows, i, kept) ==
    IF i > Len(rows) THEN kept
    ELSE IF InSeq(rows[i], kept) THEN drop_duplicates_from(rows, i + 1, kept)
    ELSE drop_duplicates_from(rows, i + 1, Append(kept, rows[i]))

drop_duplicates(rows) == drop_duplicates_from(rows, 1, <<>>)

\* df[col].map(mapping).fillna(df[col]) when col is a column of df
map_column(df, col, mapping) ==
    IF col \in df.columns
    THEN [df EXCEPT !.rows =
             [i \in 1..Len(df.rows) |->
                 [df.rows[i] EXCEPT ![col] = IF @ \in DOMAIN mapping THEN mapping[@] ELSE @]]]
    ELSE df

\* ingestion.clean_data
clean_data(df) ==
    map_column(
        map_column(
            map_column([df EXCEPT !.rows = drop_duplicates(df.rows)],
                       "experience_level", EXPERIENCE_MAPPING),
            "employment_type", EMPLOYMENT_MAPPING),
        "company_size", COMPANY_SIZE_MAPPING)

\* The cell values of a column: codes, a full name, codes the mappings do
\* not know.
CellValues(col) ==
    CASE col = "experience_level" -> {"EN", "SE", "Entry-level", "UNKNOWN"}
      [] col = "employment_type" -> {"FT", "XX"}
      [] col = "company_size" -> {"S", "small"}
      [] OTHER -> {"Data Scientist"}

ColumnSets ==
    {{"experience_level", "employment_type", "company_size"},
     {"experience_level", "job_title"}}

RowsOver(columns) ==
    {r \in [columns -> UNION {CellValues(c) : c \in columns}] :
        \A c \in columns : r[c] \in CellValues(c)}

DataFrames ==
    UNION {{[columns |-> columns, rows |-> rows] :
               rows \in ListsUpTo(RowsOver(columns), MaxRows)} : columns \in ColumnSets}

InitClean ==
    /\ GraphIdle /\ CtlIdle /\ PipeIdle /\ StoreIdle /\ LoadIdle /\ MainIdle /\ AgentIdle /\ AskIdle /\ BootIdle /\ CvIdle
    /\ \E df \in DataFrames :
          frame = [columns |-> df.columns, rows |-> df.rows, passes |-> 0]

\* df = clean_data(df)
Clean ==
    /\ frame.passes < MaxPasses
    /\ LET df == clean_data([columns |-> frame.columns, rows |-> frame.rows])
       IN frame' = [columns |-> df.columns, rows |-> df.rows, passes |-> frame.passes + 1]
    /\ UNCHANGED <<kg, addOnEmpty, ret, query, route, pipeline, out, storeVars, loadVars, mainp, agent, asked, boot, cvapp>>

NextClean == Clean

SpecClean == InitClean /\ [][NextClean]_vars

\* C20: what clean_data returns has no two equal rows and no known code
\* left in the three coded columns, and clean_data applied to it returns it
\* unchanged.
C20_CleanDataIdempotent ==
    frame.passes >= 1 =>
        LET df == [columns |-> frame.columns, rows |-> frame.rows]
        IN /\ IsInjective(frame.rows)
           /\ \A i \in 1..Len(frame.rows) :
                 /\ "experience_level" \in frame.columns =>
                       frame.rows[i]["experience_level"] \notin DOMAIN EXPERIENCE_MAPPING
                 /\ "employment_type" \in frame.columns =>
                       frame.rows[i]["employment_type"] \notin DOMAIN EMPLOYMENT_MAPPING
                 /\ "company_size" \in frame.columns =>
                       frame.rows[i]["company_size"] \notin DOMAIN COMPANY_SIZE_MAPPING
           /\ clean_data(df) = df

(***************************************************************************)
(* multi_doc_rag: load_documents (loader.py).                              *)
(*                                                                         *)
(* The disk is a function from the folders that exist to their listing,    *)
(* the sequence of file names os.listdir gives.  A document is one page of *)
(* a PDF: the file it came from and its page number.                       *)
(***************************************************************************)
MaxFiles == 3     \* files in a document folder

EndsWith(s, suffix) ==
    /\ Len(s) >= Len(suffix)
    /\ SubSeq(s, Len(s) - Len(suffix) + 1, Len(s)) = suffix

\* The files that may lie in a folder, with what PyPDFLoader(file).load()
\* does on them: the number of pages it returns, or the exception it raises.
FileNames == {"cv.pdf", "paper.pdf", "scan.pdf", "notes.txt", "slides.PDF"}

PdfPages(filename) ==
    CASE filename = "cv.pdf" -> 2
      [] filename = "paper.pdf" -> 1
      [] OTHER -> 0

PdfError(filename) ==
    CASE filename = "scan.pdf" -> "PdfStreamError"
      [] filename = "notes.txt" -> "PdfReadError"
      [] OTHER -> ""

\* PyPDFLoader(file_path).load()
PyPDFLoader_load(filename) ==
    IF PdfError(filename) # ""
    THEN [raised |-> PdfError(filename), pages |-> <<>>]
    ELSE [raised |-> "",
          pages |-> [i \in 1..PdfPages(filename) |-> [source |-> filename, page |-> i]]]

RECURSIVE load_loop_unguarded(_, _, _)
RECURSIVE load_loop(_, _, _)

\* A loop with no try block around the loader.
load_loop_unguarded(listing, i, r) ==
    IF i > Len(listing) \/ r.raised # "" THEN r
    ELSE IF EndsWith(listing[i], ".pdf")
    THEN LET l == PyPDFLoader_load(listing[i])
         IN load_loop_unguarded(listing, i + 1,
                [raised |-> l.raised, documents |-> r.documents \o l.pages])
    ELSE load_loop_unguarded(listing, i + 1, r)

\* load_documents, the loop over os.listdir(folder_path)
load_loop(listing, i, r) ==
    IF i > Len(listing) THEN r
    ELSE IF EndsWith(listing[i], ".pdf")
    THEN LET l == PyPDFLoader_load(listing[i])
         IN load_loop(listing, i + 1,
                [raised |-> r.raised,
                 documents |-> IF l.raised = "" THEN r.documents \o l.pages
                               ELSE r.documents])
    ELSE load_loop(listing, i + 1, r)

\* load_documents(folder_path): the disk afterwards, and what the call
\* returned or raised.
load_documents(disk, folder_path) ==
    IF folder_path \notin DOMAIN disk
    THEN [disk |-> [p \in DOMAIN disk \cup {folder_path} |->
                       IF p = folder_path THEN <<>> ELSE disk[p]],
          raised |-> "", documents |-> <<>>]
    ELSE LET r == load_loop(disk[folder_path], 1, [raised |-> "", documents |-> <<>>])
         IN [disk |-> disk, raised |-> r.raised, documents |-> r.documents]

FolderPaths == {"./data", "./papers"}

InitLoad ==
    /\ GraphIdle /\ CtlIdle /\ PipeIdle /\ StoreIdle /\ CleanIdle /\ MainIdle /\ AgentIdle /\ AskIdle /\ BootIdle /\ CvIdle
    /\ folders = <<>>
    /\ loaded = NoCall

\* A file is put into a folder that exists.
PutFile ==
    \E folder_path \in DOMAIN folders, filename \in FileNames :
        /\ Len(folders[folder_path]) < MaxFiles
        /\ ~InSeq(filename, folders[folder_path])
        /\ folders' = [folders EXCEPT ![folder_path] = Append(@, filename)]
        /\ loaded' = NoCall
        /\ UNCHANGED <<kg, addOnEmpty, ret, query, route, pipeline, out, storeVars, frame, mainp, agent, asked, boot, cvapp>>

\* load_documents(folder_path)
LoadDocuments ==
    \E folder_path \in FolderPaths :
        LET r == load_documents(folders, folder_path)
        IN /\ folders' = r.disk
           /\ loaded' = [op |-> "load_documents", folder_path |-> folder_path,
                         existed |-> folder_path \in DOMAIN folders,
                         raised |-> r.raised, documents |-> r.documents]
           /\ UNCHANGED <<kg, addOnEmpty, ret, query, route, pipeline, out, storeVars, frame, mainp, agent, asked, boot, cvapp>>

NextLoad == PutFile \/ LoadDocuments

SpecLoad == InitLoad /\ [][NextLoad]_vars

MaxRounds == 3    \* questions and reports asked for in one session

\* The classes derived from Exception; KeyboardInterrupt is not one.
Exceptions == {"FileNotFoundError", "ValueError", "EOFError", "GenerationError"}

IsException(exc) == exc \in Exceptions

\* main: the except clauses, in their order
main_except(exc) ==
    CASE exc = "FileNotFoundError" -> [returned |-> 1, raised |-> ""]
      [] exc = "KeyboardInterrupt" -> [returned |-> 0, raised |-> ""]
      [] IsException(exc) -> [returned |-> 1, raised |-> ""]
      [] OTHER -> [returned |-> 0 - 1, raised |-> exc]

\* An option block whose except clause catches nothing.
option_except_nothing(exc) == FALSE

\* run_interactive_session: `except Exception` around options 1 and 2
option_except(exc) == IsException(exc)

\* What input() does: the line typed, or the exception raised.
Typed(text) == [kind |-> "text", text |-> text]
ChoiceInputs ==
    {Typed("1"), Typed(" 2\n"), Typed("3"), Typed("exit"), Typed("quit"), Typed("q"),
     Typed("4"), Typed(""), [kind |-> "EOFError", text |-> ""],
     [kind |-> "KeyboardInterrupt", text |-> ""]}

TextInputs ==
    {Typed("Data Scientist"), Typed("  "), [kind |-> "EOFError", text |-> ""],
     [kind |-> "KeyboardInterrupt", text |-> ""]}

\* What initialize_system, advisor.run and advisor.get_salary_insight do.
InitOutcomes == {"", "FileNotFoundError", "ValueError", "KeyboardInterrupt"}
AdvisorOutcomes == {"", "GenerationError", "ValueError", "KeyboardInterrupt"}

\* main returns or an exception leaves it
Leave(exc, cause) ==
    [mainp EXCEPT !.pc = "done", !.event = "left", !.cause = cause,
                  !.exit_code = main_except(exc).returned,
                  !.raised = main_except(exc).raised]

\* run_interactive_session returned: main returns 0
SessionOver(cause) ==
    [mainp EXCEPT !.pc = "done", !.event = "left", !.cause = cause, !.exit_code = 0]

InitMain ==
    /\ GraphIdle /\ CtlIdle /\ PipeIdle /\ StoreIdle /\ CleanIdle /\ LoadIdle /\ AgentIdle /\ AskIdle /\ BootIdle /\ CvIdle
    /\ mainp = [NoMain EXCEPT !.pc = "start"]

\* main() up to the first prompt: initialize_system()
Initialize ==
    /\ mainp.pc = "start"
    /\ \E o \in InitOutcomes :
          mainp' = IF o = "" THEN [mainp EXCEPT !.pc = "menu", !.event = "initialized"]
                   ELSE Leave(o, "initialize:" \o o)
    /\ UNCHANGED <<kg, addOnEmpty, ret, query, route, pipeline, out, storeVars, frame,
                   loadVars, agent, asked, boot, cvapp>>

\* display_menu() and the input of the choice
Choose ==
    /\ mainp.pc = "menu"
    /\ \E in \in ChoiceInputs :
          LET choice == Strip(in.text)
          IN /\ (in.kind = "text" /\ choice \in {"1", "2"}) => mainp.rounds < MaxRounds
             /\ mainp' =
               IF in.kind # "text" THEN SessionOver("choice:" \o in.kind)
               ELSE IF choice = "1"
               THEN [mainp EXCEPT !.pc = "option1", !.event = "chosen"]
               ELSE IF choice = "2"
               THEN [mainp EXCEPT !.pc = "option2", !.event = "chosen"]
               ELSE IF choice \in {"3", "exit", "quit", "q"} THEN SessionOver("choice:exit")
               ELSE [mainp EXCEPT !.event = "invalid choice"]
    /\ UNCHANGED <<kg, addOnEmpty, ret, query, route, pipeline, out, storeVars, frame,
                   loadVars, agent, asked, boot, cvapp>>

\* Option 1 or 2: the input of the question or job title, and the call of
\* the advisor with it.
Option ==
    /\ mainp.pc \in {"option1", "option2"}
    /\ \E in \in TextInputs, o \in AdvisorOutcomes :
          LET exc == IF in.kind # "text" THEN in.kind
                     ELSE IF Strip(in.text) = "" THEN "" ELSE o
              round == [mainp EXCEPT !.rounds = @ + 1, !.pc = "menu"]
          IN mainp' =
               IF in.kind = "text" /\ Strip(in.text) = ""
               THEN [round EXCEPT !.event = "nothing entered"]
               ELSE IF exc = ""
               THEN [round EXCEPT !.event = "answered", !.answered = @ + 1]
               ELSE IF option_except(exc)
               THEN [round EXCEPT !.event = "error:" \o exc, !.reported = @ + 1]
               ELSE [Leave(exc, mainp.pc \o ":" \o exc) EXCEPT !.rounds = @ + 1]
    /\ UNCHANGED <<kg, addOnEmpty, ret, query, route, pipeline, out, storeVars, frame,
                   loadVars, agent, asked, boot, cvapp>>

NextMain == Initialize \/ Choose \/ Option

SpecMain == InitMain /\ [][NextMain]_vars

\* C22: no exception leaves main; it returns 1 when initialize_system raised
\* an exception, 0 when the session ended at the menu (an exit choice, EOF
\* or Ctrl-C) or was interrupted by KeyboardInterrupt; an exception raised
\* while a question or report is handled is reported and the menu comes
\* next.
C22_MainNeverPropagates ==
    /\ mainp.pc = "done" =>
          /\ mainp.raised = ""
          /\ mainp.exit_code \in {0, 1}
          /\ mainp.exit_code = 1 <=>
                mainp.cause \in {"initialize:FileNotFoundError", "initialize:ValueError"}
          /\ mainp.exit_code = 0 <=>
                mainp.cause \in {"choice:exit", "choice:EOFError", "choice:KeyboardInterrupt",
                                 "initialize:KeyboardInterrupt",
                                 "option1:KeyboardInterrupt", "option2:KeyboardInterrupt"}
    /\ mainp.event \in {"error:GenerationError", "error:ValueError", "error:EOFError"} =>
          /\ mainp.pc = "menu"
          /\ mainp.reported > 0

\* A session in which an error was reported, a later question answered, and
\* which Ctrl-C then ended inside an option.
C22_Witness ==
    /\ mainp.pc = "done"
    /\ mainp.reported > 0 /\ mainp.answered > 0
    /\ mainp.cause = "option1:KeyboardInterrupt"
    /\ mainp.exit_code = 0

(***************************************************************************)
(* graph_rag: further properties of the traversal and of the graph.        *)
(***************************************************************************)
\* C23: for max_depth 1 and 2 a retrieval from a node of the graph returns
\* exactly the triples of the edges with an endpoint within max_depth - 1
\* hops of the entity, edges followed in either direction.
C23_ExactUpToDepthTwo ==
    (ret.called /\ ret.entity \in kg.nodes /\ ret.max_depth <= 2) =>
        ret.context = {TripleOf(p) : p \in EdgesInRange(ret.entity, ret.max_depth)}

\* A retrieval with max_depth 2 on a graph with a self-loop, with edges in
\* both directions between two nodes, and with an edge out of range.
C23_Witness ==
    /\ ret.called /\ ret.entity \in kg.nodes /\ ret.max_depth = 2
    /\ \E n \in kg.nodes : <<n, n>> \in Edges(kg)
    /\ \E n, m \in kg.nodes : n # m /\ <<n, m>> \in Edges(kg) /\ <<m, n>> \in Edges(kg)
    /\ \E p \in Edges(kg) : TripleOf(p) \notin ret.context
    /\ ret.context # {}

\* C24: a retrieval returns after at most one call of dfs for the entity
\* and one for each end of each edge; the recursive calls nest at most
\* max_depth deep (the last of them returns at once); and only nodes entered
\* within the depth bound are marked visited.
C24_TraversalBounded ==
    ret.called =>
        /\ ret.calls <= 1 + 2 * Cardinality(Edges(kg))
        /\ ret.deepest <= ret.max_depth + 1
        /\ ret.entity \in kg.nodes => ret.visited \subseteq Within({ret.entity}, ret.max_depth - 1)
        /\ ret.entity \notin kg.nodes => (ret.visited = {} /\ ret.calls = 0)

\* A retrieval on a graph with a cycle through the entity and a self-loop
\* on a visited node, cut off by the depth bound with a node left unvisited.
C24_Witness ==
    /\ ret.called /\ ret.entity \in kg.nodes
    /\ ret.deepest = ret.max_depth + 1
    /\ ret.visited # kg.nodes
    /\ \E n \in ret.visited : <<n, n>> \in Edges(kg)
    /\ \E n \in kg.nodes \ {ret.entity} :
          <<ret.entity, n>> \in Edges(kg) /\ <<n, ret.entity>> \in Edges(kg)

(***************************************************************************)
(* agentic_rag: rag_answer and get_llm (pipeline.py).                      *)
(***************************************************************************)
MaxCalls == 3     \* rag_answer calls made in one run of the program

\* A get_llm that builds the pipeline on every call.
get_llm_uncached(llm, built) ==
    IF built = "" THEN [llm |-> Str("google/flan-t5-base"), loaded |-> 1, raised |-> ""]
    ELSE [llm |-> llm, loaded |-> 0, raised |-> built]

\* get_llm(): the module-level _llm afterwards, whether transformers'
\* pipeline(...) built a model, and the exception it raised, if any.
get_llm(llm, built) ==
    IF llm = PyNone
    THEN IF built = "" THEN [llm |-> Str("google/flan-t5-base"), loaded |-> 1, raised |-> ""]
         ELSE [llm |-> PyNone, loaded |-> 0, raised |-> built]
    ELSE [llm |-> llm, loaded |-> 0, raised |-> ""]

\* rag_answer(query, retriever): found is what retriever.invoke returns or
\* raises, generated what the LLM does with the prompt.
rag_answer(a, q, built, found, generated) ==
    LET action == agent_controller(q)
        g == get_llm(a.llm, built)
        searched == g.raised = "" /\ action = "search"
        context == JoinLines(found.page_contents)
        final_prompt == IF action = "search"
                        THEN "Use this context:\n" \o context
                             \o "\n\nAnswer the question: " \o q
                        ELSE q
        prompted == g.raised = "" /\ ~(searched /\ found.raised # "")
        raised == IF g.raised # "" THEN g.raised
                  ELSE IF searched /\ found.raised # "" THEN found.raised
                  ELSE generated.raised
    IN [llm |-> g.llm,
        loads |-> a.loads + g.loaded,
        calls |-> a.calls + 1,
        answer |-> [op |-> "rag_answer", query |-> q, action |-> action,
                    retriever_calls |-> BoolToNat(searched),
                    llm_calls |-> BoolToNat(prompted),
                    prompt |-> IF prompted THEN final_prompt ELSE "",
                    raised |-> raised,
                    response |-> IF raised = "" THEN generated.text ELSE ""]]

AgentQueries ==
    {"Summarize the PDF", "find the salary", "Hello there", "What is 2 + 2?", "DATA",
     "Who wrote the FILE?", ""}

\* retriever.invoke(query): up to k = 3 documents, or an exception
Found ==
    {[raised |-> "", page_contents |-> <<>>],
     [raised |-> "", page_contents |-> <<"Page one of the report.">>],
     [raised |-> "", page_contents |-> <<"Page one of the report.", "Page two.">>],
     [raised |-> "ConnectionError", page_contents |-> <<>>]}

\* llm(final_prompt)[0]["generated_text"], or an exception
Generated ==
    {[raised |-> "", text |-> "4"],
     [raised |-> "", text |-> "The report is about salaries."],
     [raised |-> "RuntimeError", text |-> ""]}

\* pipeline("text2text-generation", ...): builds the model or raises
Loads == {"", "OSError"}

InitAgent ==
    /\ GraphIdle /\ CtlIdle /\ PipeIdle /\ StoreIdle /\ CleanIdle /\ LoadIdle /\ MainIdle /\ AskIdle /\ BootIdle /\ CvIdle
    /\ agent = NoAgent

\* rag_answer(query, retriever)
RagAnswer ==
    /\ agent.calls < MaxCalls
    /\ \E q \in AgentQueries, built \in Loads, found \in Found, generated \in Generated :
          agent' = rag_answer(agent, q, built, found, generated)
    /\ UNCHANGED <<kg, addOnEmpty, ret, query, route, pipeline, out, storeVars, frame,
                   loadVars, mainp, asked, boot, cvapp>>

NextAgent == RagAnswer

SpecAgent == InitAgent /\ [][NextAgent]_vars

\* C25: a rag_answer call that returns has invoked the retriever exactly
\* when agent_controller says "search"; on "direct" the retriever is not
\* invoked and the LLM gets the query unchanged; the LLM is called once; and
\* the model is loaded at most once, however many calls are made.
C25_RouteDecidesRetrieval ==
    /\ agent.loads <= 1
    /\ (agent.answer.op = "rag_answer" /\ agent.answer.raised = "") =>
          /\ agent.answer.retriever_calls = 1 <=> agent_controller(agent.answer.query) = "search"
          /\ agent.answer.retriever_calls \in {0, 1}
          /\ agent_controller(agent.answer.query) = "direct" =>
                (agent.answer.retriever_calls = 0 /\ agent.answer.prompt = agent.answer.query)
          /\ agent_controller(agent.answer.query) = "search" =>
                Contains(agent.answer.prompt, agent.answer.query)
          /\ agent.answer.llm_calls = 1
    /\ (agent.answer.op = "rag_answer" /\ agent.answer.action = "direct") =>
          agent.answer.retriever_calls = 0

\* A direct answer given by a model that an earlier call had loaded.
C25_Witness ==
    /\ agent.answer.op = "rag_answer" /\ agent.answer.raised = ""
    /\ agent.answer.action = "direct"
    /\ agent.answer.prompt = "What is 2 + 2?"
    /\ agent.loads = 1


(***************************************************************************)
(* graph_rag: GraphRAGPipeline (main.py).                                  *)
(*                                                                         *)
(* ingest hands the list the extractor parsed from the LLM's JSON to       *)
(* add_triples; ask looks the node names up in the question, collects the  *)
(* two-hop context of each match and calls the answer chain.               *)
(***************************************************************************)
ASK_MAX_DEPTH == 2

\* What GraphExtractor.extract may return: triples of strings (two of them
\* for the pair (A, B)), one whose "tail" is a JSON list, one whose "head" is a JSON list, one without
\* "relation".
Extracted ==
    {Dict(Str("A"), Str("r"), Str("B")),
     Dict(Str("B"), Str("r"), Str("C")),
     Dict(Str("C"), Str("r"), Str("A")),
     Dict(Str("D"), Str("r"), Str("D")),
     Dict(Str("A"), Str("s"), Str("B")),
     Dict(Str("C"), Str("r"), PyList("A", "B")),
     Dict(PyList("A", "B"), Str("r"), Str("D")),
     Dict(Str("C"), PyNone, Str("D"))}

Extractions == ListsUpTo(Extracted, MaxBatch)

Questions == {"Who is a?", "What does C do?", "b or not", "D", "Hello", ""}

\* [n for n in self.graph.graph.nodes if n.lower() in question.lower()]
entities_in_graph(question) == {n \in kg.nodes : Contains(Lower(question), Lower(n))}

\* GraphRAGPipeline.ask(question)
ask(question) ==
    LET entities == entities_in_graph(question)
        context_parts == {retrieve_graph_context(entity, ASK_MAX_DEPTH).text :
                              entity \in entities} \ {""}
        full_context == Join(context_parts)
    IN [op |-> "ask", question |-> question, entities |-> entities,
        context_parts |-> context_parts,
        branch |-> IF entities = {} THEN "No matching entities"
                   ELSE IF full_context = "" THEN "No relevant context"
                   ELSE "Answer",
        llm_calls |-> IF entities # {} /\ full_context # "" THEN 1 ELSE 0]

InitAsk == InitGraph

\* GraphRAGPipeline.ingest(text), the graph being the shared one
Ingest ==
    \E triples \in Extractions :
        /\ kg' = add_triples(kg, triples)
        /\ addOnEmpty' = IF kg.nodes = {}
                         THEN [called |-> TRUE, triples |-> triples]
                         ELSE NoAdd
        /\ asked' = NoCall
        /\ UNCHANGED <<ret, query, route, pipeline, out, storeVars, frame,
                       loadVars, mainp, agent, boot, cvapp>>

Ask ==
    \E question \in Questions :
        /\ asked' = ask(question)
        /\ UNCHANGED <<kg, addOnEmpty, ret, query, route, pipeline, out, storeVars, frame,
                       loadVars, mainp, agent, boot, cvapp>>

NextAsk == Ingest \/ Ask

SpecAsk == InitAsk /\ [][NextAsk]_vars

HasIncidentEdge(n) == \E p \in Edges(kg) : n = p[1] \/ n = p[2]

\* C26: every node of the graph has an incident edge, ask calls the answer
\* LLM once when a node name occurs in the question (whatever the case) and
\* not at all otherwise, and never ends in "No relevant context found".
C26_EveryNodeHasAnEdgeSoAskAnswers ==
    /\ \A n \in kg.nodes : HasIncidentEdge(n)
    /\ asked.op = "ask" =>
          /\ asked.llm_calls = (IF asked.entities # {} THEN 1 ELSE 0)
          /\ asked.branch # "No relevant context"


\* The items of a list that name the ordered pair p: dicts whose head and
\* tail are the two strings and whose relation is a non-empty string.
Naming(triples, p) ==
    {i \in 1..Len(triples) :
        /\ triples[i].isdict
        /\ triples[i].head = Str(p[1]) /\ triples[i].tail = Str(p[2])
        /\ triples[i].relation # PyNone /\ triples[i].relation # Str("")}

Last(S) == CHOOSE i \in S : \A j \in S : j <= i

\* The label the pair p carries once the items of the list were added to
\* the graph g, one edge per ordered pair: the relation of the last item
\* naming it, or else the label it had.
LatestRelation(g, triples, p) ==
    IF Naming(triples, p) # {} THEN triples[Last(Naming(triples, p))].relation[1]
    ELSE g.label[p]

\* C27: the graph is the one shared object and only grows: no step removes
\* a node or an edge; a list added to the empty graph leaves every pair with
\* the relation of the last item naming it, and one more triple added to
\* the graph as it is now gives its pair its relation and leaves the other
\* labels alone; ask reads the graph as it is now (the triple of every edge
\* on a matched entity, with its current label, is in the context).
C27_SharedGraphGrowsLatestRelationWins ==
    /\ [][kg.nodes \subseteq kg'.nodes /\ Edges(kg) \subseteq Edges(kg')]_vars
    /\ [](/\ addOnEmpty.called =>
                \A p \in Edges(kg) :
                    kg.label[p] = LatestRelation(EmptyGraph, addOnEmpty.triples, p)
          /\ \A item \in Extracted :
                LET g == add_triples(kg, <<item>>)
                IN /\ kg.nodes \subseteq g.nodes
                   /\ Edges(kg) \subseteq Edges(g)
                   /\ \A p \in Edges(g) : g.label[p] = LatestRelation(kg, <<item>>, p)
          /\ asked.op = "ask" =>
                \A entity \in asked.entities :
                    \A p \in Edges(kg) :
                        entity \in {p[1], p[2]} =>
                            \E ctx \in asked.context_parts :
                                Contains(ctx, Triple(p[1], kg.label[p], p[2])))

\* "A r B" then "A s B" were added and the pair carries "s"; a question
\* naming B was asked afterwards.
C27_Witness ==
    /\ addOnEmpty.called
    /\ addOnEmpty.triples = <<Dict(Str("A"), Str("r"), Str("B")), Dict(Str("A"), Str("s"), Str("B"))>>
    /\ kg.label[<<"A", "B">>] = "s"
    /\ asked.op = "ask" /\ "B" \in asked.entities


(***************************************************************************)
(* rag_from_scratch: stores of more than one dimension.                    *)
(*                                                                         *)
(* initialize_system builds its store as VectorStore(embeddings.shape[1])  *)
(* and saves it, or constructs VectorStore(EMBEDDING_DIMENSION) and loads  *)
(* the file: the store in hand and the store that wrote the file need not  *)
(* have been constructed with the same dimension.                          *)
(***************************************************************************)
Dimensions == {DIMENSION, DIMENSION + 1}

InitDims == InitStore

\* store = VectorStore(dimension), for either dimension
Construct ==
    \E dimension \in Dimensions :
        /\ store' = VectorStore(dimension)
        /\ ghost' = [ghost EXCEPT !.added = 0, !.loaded = FALSE]
        /\ call' = [op |-> "new"]
        /\ UNCHANGED <<kg, addOnEmpty, ret, query, route, pipeline, out, files, frame,
                       loadVars, mainp, agent, asked, boot, cvapp>>

NextDims == Construct \/ Add \/ Save \/ Load

SpecDims == InitDims /\ [][NextDims]_vars

\* C28: the dimension of the index is store.dimension in every state, and
\* add raises nothing but its own ValueError: the vectors that pass its
\* check are vectors the index holds.
C28_IndexDimensionIsStoreDimension ==
    /\ store.d = store.dimension
    /\ call.op = "add" => call.raised \in {"", "ValueError"}


(***************************************************************************)
(* rag_from_scratch: initialize_system (main.py).                          *)
(*                                                                         *)
(* The disk holds the raw salaries CSV, the processed CSV and the FAISS    *)
(* index file, each present or not.  A row of the data is written as the   *)
(* text chunk made of it.                                                  *)
(***************************************************************************)
FAISS_INDEX_PATH == "data/processed/faiss_index.bin"

Present(content) == <<content>>

\* The raw files: one or more rows, some of them twice.
RawFiles == ListsUpTo({Rows[i] : i \in 1..Len(Rows)}, MaxRows) \ {<<>>}

\* The vector the embedding model gives a text: a function of the text
\* alone, float32, of width DIMENSION.
model_encode(text) ==
    LET i == CHOOSE j \in 1..Len(Rows) : Rows[j] = text
    IN <<2 * i, 2 * (Len(Rows) - i)>>

\* Embedder.encode(texts)
Embedder_encode(texts) ==
    Array("float32", DIMENSION, [i \in 1..Len(texts) |-> model_encode(texts[i])])

\* create_text_chunks(clean_data(load_data(raw_path))): the duplicates are
\* dropped, the rows left keep their order
ingest_rows(raw) == drop_duplicates(raw)

\* initialize_system(): what it returns or raises, and the disk it leaves
initialize_system(b, fs) ==
    IF b.processed = <<>> /\ b.raw = <<>>
    THEN [boot |-> [b EXCEPT !.returned = FALSE, !.raised = "FileNotFoundError", !.df = <<>>],
          files |-> fs, store |-> NoStore]
    ELSE LET df == IF b.processed = <<>> THEN ingest_rows(b.raw[1]) ELSE b.processed[1]
             built == add(VectorStore(Embedder_encode(df).shape[2]), Embedder_encode(df)).store
             loading == load(VectorStore(DIMENSION), fs, FAISS_INDEX_PATH).store
         IN [boot |-> [b EXCEPT !.processed = Present(df), !.returned = TRUE,
                                !.raised = "", !.df = df],
             files |-> IF FAISS_INDEX_PATH \notin DOMAIN fs
                       THEN save(built, fs, FAISS_INDEX_PATH).files
                       ELSE fs,
             store |-> IF FAISS_INDEX_PATH \notin DOMAIN fs THEN built ELSE loading]

InitBoot ==
    /\ GraphIdle /\ CtlIdle /\ PipeIdle /\ StoreIdle /\ CleanIdle /\ LoadIdle /\ MainIdle
    /\ AgentIdle /\ AskIdle /\ CvIdle
    /\ \E raw \in RawFiles : boot = [NoBoot EXCEPT !.raw = Present(raw)]

InitializeSystem ==
    LET r == initialize_system(boot, files)
    IN /\ boot' = r.boot
       /\ files' = r.files
       /\ store' = r.store
       /\ UNCHANGED <<kg, addOnEmpty, ret, query, route, pipeline, out, ghost, call, frame,
                      loadVars, mainp, agent, asked, cvapp>>

\* Between two runs the raw CSV is replaced or removed
WriteRaw ==
    \E raw \in RawFiles \cup {<<>>} :
        /\ boot' = [boot EXCEPT !.raw = IF raw = <<>> THEN <<>> ELSE Present(raw)]
        /\ UNCHANGED <<kg, addOnEmpty, ret, query, route, pipeline, out, storeVars, frame,
                       loadVars, mainp, agent, asked, cvapp>>

\* ... the processed CSV is deleted
RemoveProcessed ==
    /\ boot.processed # <<>>
    /\ boot' = [boot EXCEPT !.processed = <<>>]
    /\ UNCHANGED <<kg, addOnEmpty, ret, query, route, pipeline, out, storeVars, frame,
                   loadVars, mainp, agent, asked, cvapp>>

\* ... the index file is deleted
RemoveIndex ==
    /\ FAISS_INDEX_PATH \in DOMAIN files
    /\ files' = [p \in DOMAIN files \ {FAISS_INDEX_PATH} |-> files[p]]
    /\ UNCHANGED <<kg, addOnEmpty, ret, query, route, pipeline, out, store, ghost, call,
                   frame, loadVars, mainp, agent, asked, boot, cvapp>>

NextBoot == InitializeSystem \/ WriteRaw \/ RemoveProcessed \/ RemoveIndex

SpecBoot == InitBoot /\ [][NextBoot]_vars

\* C29: once initialize_system has returned, the store holds one vector per
\* row of the DataFrame, and vector i is the embedding of row i.
C29_OneVectorPerRow ==
    boot.returned =>
        /\ size(store) = Len(boot.df)
        /\ \A i \in 1..Len(boot.df) : store.index[i] = model_encode(boot.df[i])


(***************************************************************************)
(* cv_analyzer: the Streamlit handler (app.py).                            *)
(*                                                                         *)
(* One run of main() with the button pressed: the uploaded CV is written   *)
(* to a temporary file (delete=False), text is extracted from it and       *)
(* cleaned, the file is unlinked, and the LLM steps follow; the whole is   *)
(* in one try block whose except clause reports the error.                 *)
(***************************************************************************)
MaxUploads == 3    \* runs of the handler with a file uploaded

\* The statement of the try block that raises, "" when none does.
Steps ==
    <<"NamedTemporaryFile", "write", "extract_text_from_pdf", "clean_cv_text_advanced",
      "unlink", "summarize_cv_llama", "extract_cv_json_llama", "compute_skill_match">>

StepOf(name) == CHOOSE i \in 1..Len(Steps) : Steps[i] = name

Failures == {""} \cup ({Steps[i] : i \in 1..Len(Steps)} \ {"unlink"})

JobDescriptions == {"", "  ", "Python developer"}

\* The handler under `if analyze_button:`, with the statement that raises
analyze(uploaded_file, job_description, failing) ==
    IF ~uploaded_file
    THEN [op |-> "analyze", uploaded |-> FALSE, job_description |-> job_description,
          raised_in |-> "", created |-> FALSE, unlinked |-> FALSE,
          reported |-> "Please upload a CV PDF file."]
    ELSE LET \* compute_skill_match is called for a non-blank description only
             raises == /\ failing # ""
                       /\ (failing = "compute_skill_match" => Strip(job_description) # "")
             reached(step) == ~raises \/ StepOf(step) <= StepOf(failing)
             done(step) == ~raises \/ StepOf(step) < StepOf(failing)
         IN [op |-> "analyze", uploaded |-> TRUE, job_description |-> job_description,
             raised_in |-> IF raises THEN failing ELSE "",
             created |-> done("NamedTemporaryFile"),
             unlinked |-> done("unlink"),
             reported |-> IF raises THEN "An error occurred during processing"
                          ELSE "results"]

InitCv ==
    /\ GraphIdle /\ CtlIdle /\ PipeIdle /\ StoreIdle /\ CleanIdle /\ LoadIdle /\ MainIdle
    /\ AgentIdle /\ AskIdle /\ BootIdle
    /\ cvapp = NoCv

\* The user presses "Analyze CV"
Analyze ==
    \E uploaded_file \in BOOLEAN, job_description \in JobDescriptions, failing \in Failures :
        /\ cvapp.runs < MaxUploads
        /\ LET r == analyze(uploaded_file, job_description, failing)
           IN cvapp' = [runs |-> cvapp.runs + 1,
                        tmp_files |-> cvapp.tmp_files
                                        + (IF r.created /\ ~r.unlinked THEN 1 ELSE 0),
                        last |-> r]
        /\ UNCHANGED <<kg, addOnEmpty, ret, query, route, pipeline, out, storeVars, frame,
                       loadVars, mainp, agent, asked, boot>>

NextCv == Analyze

SpecCv == InitCv /\ [][NextCv]_vars

\* C30: when the handler has finished, the temporary PDF it created is
\* gone, whichever statement raised, and none is left from earlier runs.
C30_TempFileRemovedOnEveryPath ==
    /\ cvapp.last.op = "analyze" => (cvapp.last.created => cvapp.last.unlinked)
    /\ cvapp.tmp_files = 0

====
